---- MODULE Spec2Model ----
(***************************************************************************)
(* A model of intgemm's vector kernels (src/kernels/implementations.inl),  *)
(* the intrinsics they are built from (src/intrinsics.h) and the output    *)
(* callbacks (src/callbacks/implementations.inl).                          *)
(*                                                                         *)
(* The three builds of the sources are the three values of a tier:         *)
(* "SSE2" (128-bit registers), "AVX2" (256-bit), "AVX512BW" (512-bit).     *)
(*                                                                         *)
(* Numbers.  TLC's integers are 32 bits wide, so                           *)
(*   - an int32 that is only converted or compared is a TLC integer;       *)
(*   - an int32 whose bits are shifted, masked, shuffled or multiplied is  *)
(*     the sequence of its four bytes, least significant first;            *)
(*   - a binary32 float is a record [s, m, e] of value (-1)^s * m * 2^e,   *)
(*     m = 0 (a zero, e = 0) or 2^23 <= m < 2^24.  Arithmetic rounds to    *)
(*     nearest, ties to even, as the hardware's default mode does.         *)
(*     NaNs, infinities and subnormals are outside the inputs drawn here.  *)
(***************************************************************************)
EXTENDS Integers, Sequences, FiniteSets, TLC

Tiers == {"SSE2", "AVX2", "AVX512BW"}

(***************************************************************************)
(* binary32 values                                                         *)
(***************************************************************************)
F(s, m, e) == [s |-> s, m |-> m, e |-> e]

INT_MIN == -2147483647 - 1

Abs(x) == IF x < 0 THEN -x ELSE x

RECURSIVE BitLen(_)
BitLen(a) == IF a = 0 THEN 0 ELSE 1 + BitLen(a \div 2)

\* a / 2^k rounded to the nearest integer, ties to even (k >= 1)
RoundShift(a, k) ==
  LET q == a \div 2^k
      r == a % 2^k
      half == 2^(k - 1)
  IN  IF r > half \/ (r = half /\ q % 2 = 1) THEN q + 1 ELSE q

\* the binary32 nearest to (-1)^s * a * 2^e, for a natural a < 2^31
Norm(s, a, e) ==
  IF a = 0 THEN F(s, 0, 0)
  ELSE LET L == BitLen(a) IN
       IF L <= 24 THEN F(s, a * 2^(24 - L), e - (24 - L))
       ELSE LET k == L - 24
                r == RoundShift(a, k)
            IN  IF r = 2^24 THEN F(s, 2^23, e + k + 1) ELSE F(s, r, e + k)

\* the binary32 holding the small integer or dyadic n * 2^e exactly
Flt(n, e) == Norm(IF n < 0 THEN 1 ELSE 0, Abs(n), e)

FNeg(x) == F(1 - x.s, x.m, x.e)

MagLt(x, y) == x.e < y.e \/ (x.e = y.e /\ x.m < y.m)

\* x < y as the ordered comparisons of the hardware see it (-0 = +0)
FLt(x, y) ==
  IF x.m = 0 /\ y.m = 0 THEN FALSE
  ELSE IF x.m = 0 THEN y.s = 0
  ELSE IF y.m = 0 THEN x.s = 1
  ELSE IF x.s # y.s THEN x.s = 1
  ELSE IF x.s = 0 THEN MagLt(x, y) ELSE MagLt(y, x)

FEq(x, y) == (x.m = 0 /\ y.m = 0) \/ x = y

FLe(x, y) == FLt(x, y) \/ FEq(x, y)

(***************************************************************************)
(* Arithmetic on one binary32 lane                                         *)
(***************************************************************************)
\* x * y rounded to nearest even: the 48-bit product of the two 24-bit
\* significands is formed from 12-bit halves as hi * 2^24 + lo
FMul(x, y) ==
  LET sg == (x.s + y.s) % 2 IN
  IF x.m = 0 \/ y.m = 0 THEN F(sg, 0, 0)
  ELSE LET h1 == x.m \div 4096
           l1 == x.m % 4096
           h2 == y.m \div 4096
           l2 == y.m % 4096
           cross == h1 * l2 + l1 * h2
           t == l1 * l2 + (cross % 4096) * 4096
           lo == t % 2^24
           hi == h1 * h2 + cross \div 4096 + t \div 2^24
           wide == hi >= 2^23
           mant == IF wide THEN hi ELSE 2 * hi + lo \div 2^23
           rem == IF wide THEN lo ELSE lo % 2^23
           half == IF wide THEN 2^23 ELSE 2^22
           ex == x.e + y.e + (IF wide THEN 24 ELSE 23)
           r == IF rem > half \/ (rem = half /\ mant % 2 = 1) THEN mant + 1 ELSE mant
       IN  IF r = 2^24 THEN F(sg, 2^23, ex + 1) ELSE F(sg, r, ex)

\* x + y rounded to nearest even: both significands carry three extra bits
\* (guard, round, sticky); the smaller operand is shifted right with a sticky bit
FAdd(x, y) ==
  IF x.m = 0 /\ y.m = 0 THEN F(IF x.s = 1 /\ y.s = 1 THEN 1 ELSE 0, 0, 0)
  ELSE IF x.m = 0 THEN y
  ELSE IF y.m = 0 THEN x
  ELSE LET big == IF MagLt(x, y) THEN y ELSE x
           small == IF MagLt(x, y) THEN x ELSE y
           d == big.e - small.e
           B == big.m * 8
           q == IF d >= 27 THEN 0 ELSE (small.m * 8) \div 2^d
           sticky == IF d >= 27 THEN TRUE ELSE (small.m * 8) % 2^d # 0
           S == IF sticky /\ q % 2 = 0 THEN q + 1 ELSE q
           T == IF big.s = small.s THEN B + S ELSE B - S
       IN  IF T = 0 THEN F(0, 0, 0) ELSE Norm(big.s, T, big.e - 3)

FSub(x, y) == FAdd(x, FNeg(y))

\* MAXPS / MINPS return the second operand unless the first compares greater / less
FMax(x, y) == IF FLt(y, x) THEN x ELSE y

FMin(x, y) == IF FLt(x, y) THEN x ELSE y

\* the quotient bits of r / d after n more steps of long division, r < d
RECURSIVE DivBits(_, _, _, _)
DivBits(r, d, n, q) ==
  IF n = 0 THEN [q |-> q, r |-> r]
  ELSE IF 2 * r >= d THEN DivBits(2 * r - d, d, n - 1, 2 * q + 1)
  ELSE DivBits(2 * r, d, n - 1, 2 * q)

\* x / y rounded to nearest even, y not zero: 26 quotient bits of the
\* significands and a sticky bit for the remainder
FDiv(x, y) ==
  LET s == (x.s + y.s) % 2 IN
  IF x.m = 0 THEN F(s, 0, 0)
  ELSE LET d == DivBits(x.m % y.m, y.m, 25, x.m \div y.m)
       IN  Norm(s, 2 * d.q + (IF d.r = 0 THEN 0 ELSE 1), x.e - y.e - 26)

\* CVTDQ2PS: a signed 32-bit integer to the nearest binary32
IntToFloat(q) ==
  IF q = INT_MIN THEN F(1, 2^23, 8) ELSE Norm(IF q < 0 THEN 1 ELSE 0, Abs(q), 0)

\* CVTPS2DQ: to the nearest integer, ties to even; a value outside the int32
\* range gives the "integer indefinite" 0x80000000
FloatToIntNearest(x) ==
  IF x.m = 0 THEN 0
  ELSE IF x.e >= 8 THEN INT_MIN
  ELSE IF x.e >= 0 THEN (IF x.s = 1 THEN -1 ELSE 1) * (x.m * 2^(x.e))
  ELSE IF -x.e > 24 THEN 0
  ELSE (IF x.s = 1 THEN -1 ELSE 1) * RoundShift(x.m, -x.e)

\* CVTTPS2DQ: truncation toward zero, same indefinite value out of range
FloatToIntTrunc(x) ==
  IF x.m = 0 THEN 0
  ELSE IF x.e >= 8 THEN INT_MIN
  ELSE IF x.e >= 0 THEN (IF x.s = 1 THEN -1 ELSE 1) * (x.m * 2^(x.e))
  ELSE IF -x.e >= 24 THEN 0
  ELSE (IF x.s = 1 THEN -1 ELSE 1) * (x.m \div 2^(-x.e))

(***************************************************************************)
(* Registers.  An integer register (vi) is a function from byte positions  *)
(* 0..n-1 to bytes 0..255; a float register (vf) is a function from lane   *)
(* positions to binary32 values, or to Mask(TRUE)/Mask(FALSE) where a       *)
(* comparison left an all-ones/all-zeros lane.                             *)
(***************************************************************************)
RegBytes(tier) == IF tier = "SSE2" THEN 16 ELSE IF tier = "AVX2" THEN 32 ELSE 64

NBytes(r) == Cardinality(DOMAIN r)

\* the signed value of 32-bit lane k of an integer register
S32(r, k) ==
  r[4 * k] + 256 * r[4 * k + 1] + 65536 * r[4 * k + 2]
    + 2^24 * (IF r[4 * k + 3] >= 128 THEN r[4 * k + 3] - 256 ELSE r[4 * k + 3])

\* byte j (0..3) of the two's complement form of the signed value v
ByteOf(v, j) == (v \div 2^(8 * j)) % 256

\* the integer register whose 32-bit lanes hold the signed values of f
FromS32(f) ==
  [b \in 0..(4 * Cardinality(DOMAIN f) - 1) |-> ByteOf(f[b \div 4], b % 4)]

\* the unsigned value of 16-bit lane k
U16(r, k) == r[2 * k] + 256 * r[2 * k + 1]

\* the integer register whose 16-bit lanes hold the unsigned values of f
FromU16(f) ==
  [b \in 0..(2 * Cardinality(DOMAIN f) - 1) |->
     IF b % 2 = 0 THEN f[b \div 2] % 256 ELSE f[b \div 2] \div 256]

Lanes16(r) == 0..(NBytes(r) \div 2 - 1)

Lanes32(r) == 0..(NBytes(r) \div 4 - 1)

S8(b) == IF b >= 128 THEN b - 256 ELSE b

RECURSIVE BitAnd(_, _)
BitAnd(x, y) ==
  IF x = 0 \/ y = 0 THEN 0
  ELSE (x % 2) * (y % 2) + 2 * BitAnd(x \div 2, y \div 2)

RECURSIVE BitOr(_, _)
BitOr(x, y) ==
  IF x = 0 THEN y
  ELSE IF y = 0 THEN x
  ELSE (IF x % 2 = 1 \/ y % 2 = 1 THEN 1 ELSE 0) + 2 * BitOr(x \div 2, y \div 2)

(***************************************************************************)
(* src/intrinsics.h: one operator per wrapped instruction, with the        *)
(* instruction's meaning.  A wrapper is the same on the three tiers but    *)
(* for the register width, which is the width of its operands here.        *)
(***************************************************************************)
add_ps(a, b) == [i \in DOMAIN a |-> FAdd(a[i], b[i])]

sub_ps(a, b) == [i \in DOMAIN a |-> FSub(a[i], b[i])]

mul_ps(a, b) == [i \in DOMAIN a |-> FMul(a[i], b[i])]

max_ps(first, second) == [i \in DOMAIN first |-> FMax(first[i], second[i])]

min_ps(a, b) == [i \in DOMAIN a |-> FMin(a[i], b[i])]

\* a 32-bit lane of all ones (b) or all zeros (~b), as a comparison leaves it
Mask(b) == [ones |-> b]

IsMask(x) == "ones" \in DOMAIN x

\* bitwise AND of float registers; the kernels pass it an all-ones/all-zeros
\* lane on at least one side, which keeps the other lane or clears it to +0.0
and_ps(first, second) ==
  [i \in DOMAIN first |->
     IF IsMask(first[i]) /\ IsMask(second[i]) THEN Mask(first[i].ones /\ second[i].ones)
     ELSE IF IsMask(second[i]) THEN (IF second[i].ones THEN first[i] ELSE F(0, 0, 0))
     ELSE (IF first[i].ones THEN second[i] ELSE F(0, 0, 0))]

and_si(a, b) == [i \in DOMAIN a |-> BitAnd(a[i], b[i])]

or_si(a, b) == [i \in DOMAIN a |-> BitOr(a[i], b[i])]

cvtepi32_ps(arg) == [k \in Lanes32(arg) |-> IntToFloat(S32(arg, k))]

cvtps_epi32(arg) == FromS32([k \in DOMAIN arg |-> FloatToIntNearest(arg[k])])

cvttps_epi32(a) == FromS32([k \in DOMAIN a |-> FloatToIntTrunc(a[k])])

max_epi16(first, second) ==
  [i \in DOMAIN first |->
     LET k == i \div 2
         x == U16(first, k)
         y == U16(second, k)
         sx == IF x >= 32768 THEN x - 65536 ELSE x
         sy == IF y >= 32768 THEN y - 65536 ELSE y
     IN  IF sx > sy THEN first[i] ELSE second[i]]

\* low 16 bits of the product of two unsigned 16-bit values
MulLo16(x, y) == ((x % 256) * y + 256 * (((x \div 256) * y) % 256)) % 65536

mullo_epi16(a, b) == FromU16([k \in Lanes16(a) |-> MulLo16(U16(a, k), U16(b, k))])

slli_epi16(a, b) == FromU16([k \in Lanes16(a) |-> (U16(a, k) * 2^b) % 65536])

srli_epi16(a, b) == FromU16([k \in Lanes16(a) |-> U16(a, k) \div 2^b])

\* byte j of the unsigned 32-bit lane at bytes base..base+3 of r, 0 above it
Digit(r, base, j) == IF j \in 0..3 THEN r[base + j] ELSE 0

\* column k of the schoolbook product of two 4-byte numbers
Column(a, b, base, k) ==
  Digit(a, base, 0) * Digit(b, base, k) + Digit(a, base, 1) * Digit(b, base, k - 1)
    + Digit(a, base, 2) * Digit(b, base, k - 2) + Digit(a, base, 3) * Digit(b, base, k - 3)

RECURSIVE CarryIn(_, _, _, _)
CarryIn(a, b, base, k) ==
  IF k = 0 THEN 0
  ELSE (Column(a, b, base, k - 1) + CarryIn(a, b, base, k - 1)) \div 256

\* byte k (0..7) of the 64-bit product of the unsigned 32-bit lanes at base
ProductByte(a, b, base, k) == (Column(a, b, base, k) + CarryIn(a, b, base, k)) % 256

\* PMULUDQ: in each 64-bit lane, the full product of the low unsigned 32-bit halves
mul_epu32(a, b) ==
  [i \in DOMAIN a |-> ProductByte(a, b, 8 * (i \div 8), i % 8)]

\* PMULLD: in each 32-bit lane, the low 32 bits of the product
mullo_epi32(a, b) ==
  [i \in DOMAIN a |-> ProductByte(a, b, 4 * (i \div 4), i % 4)]

\* PSHUFD: in each 128-bit block, lane k takes the lane named by bits 2k+1..2k of imm8
shuffle_epi32(a, imm8) ==
  [i \in DOMAIN a |->
     LET blk == 16 * (i \div 16)
         k == (i % 16) \div 4
         src == (imm8 \div 2^(2 * k)) % 4
     IN  a[blk + 4 * src + (i % 4)]]

\* PUNPCKLDQ: in each 128-bit block, lanes a0, b0, a1, b1
unpacklo_epi32(a, b) ==
  [i \in DOMAIN a |->
     LET blk == 16 * (i \div 16)
         k == (i % 16) \div 4
         from == blk + 4 * (k \div 2) + (i % 4)
     IN  IF k % 2 = 0 THEN a[from] ELSE b[from]]

set1_epi8(n, to) == [i \in 0..(n - 1) |-> to % 256]

set1_epi16(n, to) == FromU16([k \in 0..(n \div 2 - 1) |-> to % 65536])

set1_epi32(n, to) == FromS32([k \in 0..(n \div 4 - 1) |-> to])

set1_ps(n, to) == [k \in 0..(n \div 4 - 1) |-> to]

setzero_ps(n) == [k \in 0..(n \div 4 - 1) |-> F(0, 0, 0)]

(***************************************************************************)
(* Instructions the kernels call without a wrapper                         *)
(***************************************************************************)
\* a bug: the bytes are compared as unsigned
_mm_cmplt_epu8(a, b) == [i \in DOMAIN a |-> IF a[i] < b[i] THEN 255 ELSE 0]

\* PCMPGTB with the operands swapped: all ones where a < b as signed bytes
_mm_cmplt_epi8(a, b) == [i \in DOMAIN a |-> IF S8(a[i]) < S8(b[i]) THEN 255 ELSE 0]

_mm_cmplt_epi32(a, b) ==
  [i \in DOMAIN a |-> IF S32(a, i \div 4) < S32(b, i \div 4) THEN 255 ELSE 0]

max_epi8(first, second) ==
  [i \in DOMAIN first |-> IF S8(first[i]) > S8(second[i]) THEN first[i] ELSE second[i]]

max_epi32(first, second) ==
  [i \in DOMAIN first |->
     IF S32(first, i \div 4) > S32(second, i \div 4) THEN first[i] ELSE second[i]]

\* PSRLDQ: the whole 128-bit register shifted right by imm8 bytes
_mm_srli_si128(a, imm8) == [i \in DOMAIN a |-> IF i + imm8 <= 15 THEN a[i + imm8] ELSE 0]

_mm_cmplt_ps(a, b) == [i \in DOMAIN a |-> Mask(FLt(a[i], b[i]))]

_mm_cmpneq_ps(a, b) == [i \in DOMAIN a |-> Mask(~FEq(a[i], b[i]))]

\* VCMPPS into a mask register, predicates _CMP_LT_OQ and _CMP_NEQ_OQ
_mm512_cmp_ps_mask_LT(a, b) == [i \in DOMAIN a |-> FLt(a[i], b[i])]

_mm512_cmp_ps_mask_NEQ(a, b) == [i \in DOMAIN a |-> ~FEq(a[i], b[i])]

_mm512_kand(a, b) == [i \in DOMAIN a |-> a[i] /\ b[i]]

_mm512_mask_blend_ps(k, a, b) == [i \in DOMAIN a |-> IF k[i] THEN b[i] ELSE a[i]]

\* ROUNDPS toward minus infinity on one lane; the sign of a zero is kept
FloorLane(x) ==
  IF x.m = 0 \/ x.e >= 0 THEN x
  ELSE IF -x.e >= 24 THEN (IF x.s = 1 THEN Flt(-1, 0) ELSE F(0, 0, 0))
  ELSE LET q == x.m \div 2^(-x.e)
           exact == x.m % 2^(-x.e) = 0
       IN  IF x.s = 0 THEN Flt(q, 0)
           ELSE IF exact THEN Flt(-q, 0) ELSE Flt(-(q + 1), 0)

_mm256_floor_ps(a) == [i \in DOMAIN a |-> FloorLane(a[i])]

div_ps(a, b) == [i \in DOMAIN a |-> FDiv(a[i], b[i])]

\* VGATHERDPS with scale 4: lane k reads the float at base_addr + vindex[k].
\* A read outside the array is undefined: it comes back as outside.
i32gather_ps(array, base_addr, vindex, outside) ==
  [k \in Lanes32(vindex) |->
     IF base_addr + S32(vindex, k) \in DOMAIN array
     THEN array[base_addr + S32(vindex, k)] ELSE outside]

\* an approximate reciprocal: 1 / x cut to the given number of significant
\* bits (the instruction promises a relative error, not a value)
RcpLane(bits, x) ==
  LET q == FDiv(F(0, 2^23, -23), x)
  IN  F(q.s, q.m - (q.m % 2^(24 - bits)), q.e)

_mm256_rcp_ps(bits, a) == [i \in DOMAIN a |-> RcpLane(bits, a[i])]

_mm512_rcp14_ps(bits, a) == [i \in DOMAIN a |-> RcpLane(bits, a[i])]

\* VCMPPS with _CMP_LT_OS: a lane of all ones where a < b
_mm256_cmp_ps_LT(a, b) == [i \in DOMAIN a |-> Mask(FLt(a[i], b[i]))]

\* VBLENDVPS: the lane of b where the mask lane has its sign bit set
_mm256_blendv_ps(a, b, mask) == [i \in DOMAIN a |-> IF mask[i].ones THEN b[i] ELSE a[i]]

(***************************************************************************)
(* src/kernels/implementations.inl                                         *)
(***************************************************************************)
\* the float cells a store of the register input at output + offset covers
StoreRange(input, offset) == offset..(offset + Cardinality(DOMAIN input) - 1)

\* write(vf, float*, Index): the buffer after the store
write(input, output, offset) ==
  [i \in DOMAIN output |->
     IF i \in StoreRange(input, offset) THEN input[i - offset] ELSE output[i]]

\* a bug: the conversion truncates instead of rounding to nearest
quantize_truncating(input, quant_mult) == cvttps_epi32(mul_ps(input, quant_mult))

quantize(input, quant_mult) == cvtps_epi32(mul_ps(input, quant_mult))

\* a bug: the converted accumulator is returned without the multiplication
unquantize_unscaled(input, unquant_mult) == cvtepi32_ps(input)

unquantize(input, unquant_mult) == mul_ps(cvtepi32_ps(input), unquant_mult)

\* a bug: the bias is read at the start of the buffer whatever the offset
add_bias_at_start(input, bias_addr, bias_offset) ==
  add_ps(input, [k \in DOMAIN input |-> bias_addr[k]])

\* add_bias(vf, const float*, Index)
add_bias(input, bias_addr, bias_offset) ==
  LET bias_term == [k \in DOMAIN input |-> bias_addr[bias_offset + k]]
  IN  add_ps(input, bias_term)

relu_int8(t, input) ==
  LET vconst_zero == set1_epi8(NBytes(input), 0) IN
  IF t = "SSE2" THEN and_si(input, _mm_cmplt_epi8(vconst_zero, input))
  ELSE max_epi8(input, vconst_zero)

relu_int16(t, input) ==
  LET vconst_zero == set1_epi16(NBytes(input), 0) IN max_epi16(input, vconst_zero)

relu_int(t, input) ==
  LET vconst_zero == set1_epi32(NBytes(input), 0) IN
  IF t = "SSE2" THEN and_si(input, _mm_cmplt_epi32(vconst_zero, input))
  ELSE max_epi32(input, vconst_zero)

relu_float(t, input) ==
  LET vconst_zero == setzero_ps(4 * Cardinality(DOMAIN input)) IN max_ps(input, vconst_zero)

\* double lanes are written with the same records as float lanes
max_pd(first, second) == [i \in DOMAIN first |-> FMax(first[i], second[i])]

setzero_pd(n) == [k \in 0..(n \div 8 - 1) |-> F(0, 0, 0)]

relu_double(t, input) ==
  LET vconst_zero == setzero_pd(8 * Cardinality(DOMAIN input)) IN max_pd(input, vconst_zero)

\* a bug: the even product is merged without clearing its high byte
multiply_int8_unmasked(a, b) ==
  LET even == mullo_epi16(a, b)
      odd == mullo_epi16(srli_epi16(a, 8), srli_epi16(b, 8))
  IN  or_si(slli_epi16(odd, 8), even)

multiply_int8(a, b) ==
  LET even == mullo_epi16(a, b)
      odd == mullo_epi16(srli_epi16(a, 8), srli_epi16(b, 8))
  IN  or_si(slli_epi16(odd, 8), srli_epi16(slli_epi16(even, 8), 8))

multiply_int16(a, b) == mullo_epi16(a, b)

\* a bug: the interleave takes the odd products first
multiply_int_swapped(t, a, b) ==
  IF t = "SSE2"
  THEN LET even == mul_epu32(a, b)
           odd == mul_epu32(_mm_srli_si128(a, 4), _mm_srli_si128(b, 4))
       IN  unpacklo_epi32(shuffle_epi32(odd, 8), shuffle_epi32(even, 8))
  ELSE mullo_epi32(a, b)

multiply_int(t, a, b) ==
  IF t = "SSE2"
  THEN LET even == mul_epu32(a, b)
           odd == mul_epu32(_mm_srli_si128(a, 4), _mm_srli_si128(b, 4))
       IN  unpacklo_epi32(shuffle_epi32(even, 8), shuffle_epi32(odd, 8))
  ELSE mullo_epi32(a, b)

multiply_float(a, b) == mul_ps(a, b)

floor(t, input) ==
  LET n == 4 * Cardinality(DOMAIN input)
      vconst_zero == setzero_ps(n)
      vconst_one == set1_ps(n, Flt(1, 0))
      result == cvtepi32_ps(cvttps_epi32(input))
  IN  IF t = "SSE2"
      THEN LET negatives == _mm_cmplt_ps(input, vconst_zero)
               nonintegers == _mm_cmpneq_ps(input, result)
           IN  sub_ps(result, and_ps(vconst_one, and_ps(negatives, nonintegers)))
      ELSE IF t = "AVX2" THEN _mm256_floor_ps(input)
      ELSE LET negatives == _mm512_cmp_ps_mask_LT(input, vconst_zero)
               nonintegers == _mm512_cmp_ps_mask_NEQ(input, result)
           IN  _mm512_mask_blend_ps(_mm512_kand(negatives, nonintegers), result,
                                    sub_ps(result, vconst_one))

\* a change: no build is without exp_approx_taylor, sigmoid and tanh
NotSupported_nowhere(t) == FALSE

\* the build has no exp_approx_taylor, sigmoid or tanh: assert(false)
NotSupported(t) == t = "SSE2"

EXP_MIN == -20

EXP_MAX == 20

\* e^n as a float, n in -20..20
expi(n) ==
  LET exact ==
  <<F(0, 9282611, -52), F(0, 12616376, -51), F(0, 8573716, -49),
    F(0, 11652889, -48), F(0, 15837918, -47), F(0, 10762981, -45),
    F(0, 14628408, -44), F(0, 9941034, -42), F(0, 13511266, -41),
    F(0, 9181857, -39), F(0, 12479438, -38), F(0, 8480657, -36),
    F(0, 11526408, -35), F(0, 15666013, -34), F(0, 10646160, -32),
    F(0, 14469631, -31), F(0, 9833134, -29), F(0, 13364614, -28),
    F(0, 9082197, -26), F(0, 12343986, -25), F(0, 8388608, -23),
    F(0, 11401300, -22), F(0, 15495974, -21), F(0, 10530606, -19),
    F(0, 14312577, -18), F(0, 9726405, -16), F(0, 13219555, -15),
    F(0, 8983619, -13), F(0, 12210004, -12), F(0, 16595116, -11),
    F(0, 11277550, -9), F(0, 15327780, -8), F(0, 10416307, -6),
    F(0, 14157229, -5), F(0, 9620834, -3), F(0, 13076069, -2),
    F(0, 8886111, 0), F(0, 12077476, 1), F(0, 16414992, 2),
    F(0, 11155144, 4), F(0, 15161412, 5)>>
  IN  exact[n - EXP_MIN + 1]

EXP_LOOKUP == [i \in 0..(EXP_MAX - EXP_MIN) |-> expi(i + EXP_MIN)]

RECURSIVE factorial(_)
factorial(n) == IF n <= 1 THEN 1 ELSE n * factorial(n - 1)

\* dividers[i] = 1.f / factorial(7 - i)
dividers == [i \in 0..6 |-> FDiv(Flt(1, 0), Flt(factorial(7 - i), 0))]

\* the polynomial in xa, in the order of the source
RECURSIVE Horner(_, _, _)
Horner(result, xa, i) ==
  IF i = 7 THEN result
  ELSE Horner(mul_ps(add_ps(result, set1_ps(4 * Cardinality(DOMAIN xa), dividers[i])), xa),
              xa, i + 1)

\* a bug: the input is clamped from below only
Clamp_below(x0) == max_ps(x0, set1_ps(4 * Cardinality(DOMAIN x0), Flt(EXP_MIN, 0)))

\* x = max_ps(x, const_min_x); x = min_ps(x, const_max_x)
Clamp(x0) ==
  LET n == 4 * Cardinality(DOMAIN x0)
      const_min_x == set1_ps(n, Flt(EXP_MIN, 0))
      const_max_x == set1_ps(n, Flt(EXP_MAX, 0))
  IN  min_ps(max_ps(x0, const_min_x), const_max_x)

\* a bug: the gather starts at EXP_LOOKUP instead of EXP_LOOKUP + EXP_MAX
Lookup_from_start(vindex, outside) == i32gather_ps(EXP_LOOKUP, 0, vindex, outside)

\* i32gather_ps<4>(EXP_LOOKUP + EXP_MAX, vindex)
Lookup(vindex, outside) == i32gather_ps(EXP_LOOKUP, EXP_MAX, vindex, outside)

\* the body compiled for AVX2 and AVX512BW, with its locals
exp_approx_taylor(t, x0, outside) ==
  LET n == 4 * Cardinality(DOMAIN x0)
      const_one == set1_ps(n, Flt(1, 0))
      x == Clamp(x0)
      a == floor(t, x)
      xa == sub_ps(x, a)
      result == add_ps(Horner(mul_ps(set1_ps(n, dividers[0]), xa), xa, 1), const_one)
      vindex == cvtps_epi32(a)
      ea == Lookup(vindex, outside)
  IN  [x |-> x, a |-> a, xa |-> xa, result |-> result, vindex |-> vindex, ea |-> ea,
       return |-> mul_ps(ea, result)]

\* the reciprocal of the tier
Rcp(t, bits, a) == IF t = "AVX2" THEN _mm256_rcp_ps(bits, a) ELSE _mm512_rcp14_ps(bits, a)

\* the value of Op on two locals, each evaluated once
Locals2(v1, v2, Op(_, _)) == CHOOSE r \in {Op(a, b) : a \in {v1}, b \in {v2}} : TRUE

\* a bug: the blend takes its operands the other way round
SigmoidBlend_swapped(t, sigmoid_case1, sigmoid_case2, x) ==
  _mm512_mask_blend_ps(_mm512_cmp_ps_mask_LT(setzero_ps(4 * Cardinality(DOMAIN x)), x),
                       sigmoid_case2, sigmoid_case1)

\* nonnegative_x_mask and the blend
SigmoidBlend(t, sigmoid_case1, sigmoid_case2, x) ==
  LET vconst_zero == setzero_ps(4 * Cardinality(DOMAIN x)) IN
  IF t = "AVX2"
  THEN LET nonnegative_x_mask == _mm256_cmp_ps_LT(vconst_zero, x)
       IN  _mm256_blendv_ps(sigmoid_case1, sigmoid_case2, nonnegative_x_mask)
  ELSE LET nonnegative_x_mask == _mm512_cmp_ps_mask_LT(vconst_zero, x)
       IN  _mm512_mask_blend_ps(nonnegative_x_mask, sigmoid_case1, sigmoid_case2)

\* the body compiled for AVX2 and AVX512BW, with the two cases
sigmoid(t, input, bits, outside) ==
  LET n == 4 * Cardinality(DOMAIN input)
      vconst_zero == setzero_ps(n)
      vconst_one == set1_ps(n, Flt(1, 0))
      x == input
      minus_x == sub_ps(vconst_zero, x)
      Cases(e_x, e_minus_x) ==
        Locals2(Rcp(t, bits, add_ps(vconst_one, e_minus_x)),
                mul_ps(e_x, Rcp(t, bits, add_ps(vconst_one, e_x))),
                LAMBDA sigmoid_case1, sigmoid_case2 :
                  [sigmoid_case1 |-> sigmoid_case1, sigmoid_case2 |-> sigmoid_case2,
                   return |-> SigmoidBlend(t, sigmoid_case1, sigmoid_case2, x)])
  IN  Locals2(exp_approx_taylor(t, x, outside).return,
              exp_approx_taylor(t, minus_x, outside).return, Cases)

tanh(t, input, outside) ==
  LET vconst_zero == setzero_ps(4 * Cardinality(DOMAIN input))
  IN  Locals2(exp_approx_taylor(t, input, outside).return,
              exp_approx_taylor(t, sub_ps(vconst_zero, input), outside).return,
              LAMBDA e_x, e_minus_x :
                div_ps(sub_ps(e_x, e_minus_x), add_ps(e_x, e_minus_x)))

(***************************************************************************)
(* src/callbacks/implementations.inl                                       *)
(***************************************************************************)
\* a change: every build takes the registers of its own tier
CallbackRegBytes_own(t) == RegBytes(t)

\* the vi / vf macros of the callbacks: the SSE2 build takes 128-bit registers,
\* every other build (AVX2 and AVX512BW) takes the 256-bit AVX2 registers
CallbackRegBytes(t) == IF t = "SSE2" THEN 16 ELSE 32

\* the constructors: the configuration is copied, the scale is broadcast once
CallbackImpl(t, cfg) ==
  IF cfg.kind = "Dummy" THEN [kind |-> "Dummy"]
  ELSE [kind |-> cfg.kind,
        config |-> cfg,
        unquant_mult |-> set1_ps(CallbackRegBytes(t), cfg.unquant_mult)]

\* a bug: the row is left out of the offset
OutputOffset_col(info) == info.col_idx

\* a bug: the row stride is the number of rows
OutputOffset_rows(info) == info.row_idx * info.rows + info.col_idx

\* info.row_idx * info.cols + info.col_idx
OutputOffset(info) == info.row_idx * info.cols + info.col_idx

\* operator() of CallbackImpl<CPU_NAME, UnquantizeAndWrite>: memory after the call
UnquantizeAndWrite(self, m, input, info) ==
  LET result == unquantize(input, self.unquant_mult)
  IN  [m EXCEPT ![self.config.addr] = write(result, @, OutputOffset(info))]

\* operator() of CallbackImpl<CPU_NAME, UnquantizeAndAddBiasAndWrite>
UnquantizeAndAddBiasAndWrite(self, m, input, info) ==
  LET result == unquantize(input, self.unquant_mult)
      biased == add_bias(result, m[self.config.bias_addr], info.col_idx)
  IN  [m EXCEPT ![self.config.output_addr] = write(biased, @, OutputOffset(info))]

\* operator() of the three specializations; Dummy's body is empty
Callback(self, m, input, info) ==
  IF self.kind = "Dummy" THEN m
  ELSE IF self.kind = "UnquantizeAndWrite" THEN UnquantizeAndWrite(self, m, input, info)
  ELSE UnquantizeAndAddBiasAndWrite(self, m, input, info)

(***************************************************************************)
(* The driver's side: what it passes to the callbacks.                     *)
(***************************************************************************)
MaxRows == 2
MaxCalls == 2
NumAcc == 2
NumScales == 2

\* one 256-bit tile, or two 128-bit tiles, per output row
Cols == 2 * (CallbackRegBytes("SSE2") \div 4)

\* 0.1f, 0.5f, 3.0f, 2.0f
ScaleSamples == <<F(0, 13421773, -27), Flt(1, -1), Flt(3, 0), Flt(2, 0)>>

Scales == {ScaleSamples[i] : i \in 1..NumScales}

AccSamples == <<100, -50, 0, 25, -7, 16777217, INT_MIN, 2147483647, 3, -1>>

\* an accumulator register of n bytes: the samples, rotated by seed
AccVec(n, seed) ==
  FromS32([k \in 0..(n \div 4 - 1) |-> AccSamples[((seed + k) % Len(AccSamples)) + 1]])

Configs ==
  {[kind |-> "Dummy"]}
    \cup {[kind |-> "UnquantizeAndWrite", unquant_mult |-> sc, addr |-> "output"] :
            sc \in Scales}
    \cup {[kind |-> "UnquantizeAndAddBiasAndWrite", unquant_mult |-> sc,
           bias_addr |-> "bias", output_addr |-> "output"] : sc \in Scales}

\* what the output buffer holds before the multiply
Fill == Flt(-7, 0)

\* one bias per output column: all 1.0, or 1.0, 1.5, 2.0, ...
BiasBuffers ==
  {[j \in 0..(Cols - 1) |-> Flt(1, 0)], [j \in 0..(Cols - 1) |-> Flt(j + 2, -1)]}

\* the tiles of the output: the store goes through a pointer to a whole register,
\* so the driver passes the column of a whole tile, inside the row
Positions(t) ==
  {[row_idx |-> r, col_idx |-> c, rows |-> MaxRows, cols |-> Cols] :
     r \in 0..(MaxRows - 1),
     c \in {x \in 0..(Cols - 1) : x % (CallbackRegBytes(t) \div 4) = 0}}

NoImpl == [kind |-> "none"]

NoCall == [made |-> FALSE]

VARIABLES tier, config, impl, mem, call, ncalls, workers, kernel, kin, kout, kpc

vars == <<tier, config, impl, mem, call, ncalls, workers, kernel, kin, kout, kpc>>

kernelVars == <<kernel, kin, kout, kpc>>

KernelsIdle == kernel = "none" /\ kin = <<>> /\ kout = <<>> /\ kpc = "idle"

MemInit ==
  mem \in {[output |-> [i \in 0..(MaxRows * Cols - 1) |-> Fill], bias |-> b] :
             b \in BiasBuffers}

(***************************************************************************)
(* Spec: one multiply call.  The driver builds a configuration, constructs *)
(* the callback from it once, and invokes it tile after tile.              *)
(***************************************************************************)
Init ==
  /\ tier \in Tiers
  /\ config \in Configs
  /\ impl = NoImpl
  /\ MemInit
  /\ call = NoCall
  /\ ncalls = 0
  /\ workers = <<>>
  /\ KernelsIdle

Construct ==
  /\ impl = NoImpl
  /\ impl' = CallbackImpl(tier, config)
  /\ UNCHANGED <<tier, config, mem, call, ncalls, workers, kernelVars>>

\* a bug: the instance follows the caller's configuration value at every call
Invoke_following ==
  /\ impl # NoImpl
  /\ ncalls < MaxCalls
  /\ impl' = CallbackImpl(tier, config)
  /\ \E seed \in 0..(NumAcc - 1), info \in Positions(tier) :
       LET input == AccVec(CallbackRegBytes(tier), seed) IN
       /\ mem' = Callback(impl', mem, input, info)
       /\ call' = [made |-> TRUE, input |-> input, info |-> info]
  /\ ncalls' = ncalls + 1
  /\ UNCHANGED <<tier, config, workers, kernelVars>>

Invoke ==
  /\ impl # NoImpl
  /\ ncalls < MaxCalls
  /\ \E seed \in 0..(NumAcc - 1), info \in Positions(tier) :
       LET input == AccVec(CallbackRegBytes(tier), seed) IN
       /\ mem' = Callback(impl, mem, input, info)
       /\ call' = [made |-> TRUE, input |-> input, info |-> info]
  /\ ncalls' = ncalls + 1
  /\ UNCHANGED <<tier, config, impl, workers, kernelVars>>

\* the caller changes its own configuration value after the construction
ChangeConfig ==
  /\ impl # NoImpl
  /\ config.kind # "Dummy"
  /\ \E sc \in Scales : sc # config.unquant_mult /\ config' = [config EXCEPT !.unquant_mult = sc]
  /\ UNCHANGED <<tier, impl, mem, call, ncalls, workers, kernelVars>>

Next == Construct \/ Invoke \/ ChangeConfig

Spec == Init /\ [][Next]_vars

(***************************************************************************)
(* Claims about the callbacks, checked under Spec                          *)
(***************************************************************************)
CallOffset == call.info.row_idx * call.info.cols + call.info.col_idx

CallLanes == 0..(NBytes(call.input) \div 4 - 1)

Called(kind) == call.made /\ impl.kind = kind

\* the accumulator of the concrete scenario: lanes 100, -50, 0, 25
ScenarioInput == \A i \in 0..3 : S32(call.input, i) = <<100, -50, 0, 25>>[i + 1]

Tenth == F(0, 13421773, -27)

\* C1: after an invocation of UnquantizeAndWrite, output cell
\* row_idx*cols + col_idx + i holds accumulator[i] * scale for every lane i;
\* accumulator [100, -50, 0, 25] with scale 0.1 leaves [10.0, -5.0, 0.0, 2.5].
C1_UnquantizeAndWriteStores ==
  Called("UnquantizeAndWrite") =>
    /\ \A i \in CallLanes :
         mem.output[CallOffset + i]
           = FMul(IntToFloat(S32(call.input, i)), impl.config.unquant_mult)
    /\ (ScenarioInput /\ impl.config.unquant_mult = Tenth) =>
         \A i \in 0..3 :
           mem.output[CallOffset + i]
             = <<Flt(10, 0), Flt(-5, 0), F(0, 0, 0), Flt(5, -1)>>[i + 1]

C1_Witness ==
  /\ Called("UnquantizeAndWrite")
  /\ ScenarioInput
  /\ impl.config.unquant_mult = Tenth
  /\ call.info.row_idx = 1
  /\ mem.output[CallOffset + 3] = Flt(5, -1)

\* C2: after an invocation of UnquantizeAndAddBiasAndWrite, output cell
\* row_idx*cols + col_idx + i holds accumulator[i] * scale + bias[col_idx + i]:
\* the bias is added after the unquantization and read at the column offset only.
\* With bias 1.0 the scenario leaves [11.0, -4.0, 1.0, 3.5].
C2_AddBiasAfterUnquantize ==
  Called("UnquantizeAndAddBiasAndWrite") =>
    /\ \A i \in CallLanes :
         mem.output[CallOffset + i]
           = FAdd(FMul(IntToFloat(S32(call.input, i)), impl.config.unquant_mult),
                  mem.bias[call.info.col_idx + i])
    /\ (/\ ScenarioInput
        /\ impl.config.unquant_mult = Tenth
        /\ \A i \in 0..3 : mem.bias[call.info.col_idx + i] = Flt(1, 0)) =>
         \A i \in 0..3 :
           mem.output[CallOffset + i]
             = <<Flt(11, 0), Flt(-4, 0), Flt(1, 0), Flt(7, -1)>>[i + 1]

C2_Witness ==
  /\ Called("UnquantizeAndAddBiasAndWrite")
  /\ call.info.row_idx = 1
  /\ call.info.col_idx > 0
  /\ mem.bias[call.info.col_idx] # mem.bias[0]
  /\ mem.output[CallOffset] = FAdd(FMul(IntToFloat(S32(call.input, 0)),
                                        impl.config.unquant_mult),
                                   mem.bias[call.info.col_idx])

\* C3: an invocation changes no output cell outside the window
\* [row_idx*cols + col_idx, + tile_width) and no cell of the bias buffer, and an
\* invocation of the NoOp (Dummy) callback changes no memory at all.
C3_InvocationFrame ==
  [][/\ \A i \in DOMAIN mem.output :
          mem'.output[i] # mem.output[i] =>
            /\ call'.made
            /\ i >= call'.info.row_idx * call'.info.cols + call'.info.col_idx
            /\ i < call'.info.row_idx * call'.info.cols + call'.info.col_idx
                     + NBytes(call'.input) \div 4
     /\ mem'.bias = mem.bias
     /\ impl.kind = "Dummy" => mem' = mem]_vars

\* a second invocation has kept what the first one wrote elsewhere
C3_Witness ==
  /\ call.made
  /\ ncalls = 2
  /\ impl.kind # "Dummy"
  /\ \E i \in DOMAIN mem.output :
       /\ i \notin {CallOffset + k : k \in CallLanes}
       /\ mem.output[i] # Fill

\* C4 as claimed: the callback of each tier takes an accumulator of the tier's
\* register width and writes that tier's float lane count: 4, 8 and 16 cells.
C4_TierWidthWindow ==
  (call.made /\ ncalls = 1 /\ impl.kind # "Dummy") =>
    LET n == IF tier = "SSE2" THEN 4 ELSE IF tier = "AVX2" THEN 8 ELSE 16 IN
    /\ NBytes(call.input) = 4 * n
    /\ {i \in DOMAIN mem.output : mem.output[i] # Fill}
         = CallOffset..(CallOffset + n - 1)

\* C4 amended: the callback takes a 128-bit accumulator and writes 4 cells on
\* SSE2; on AVX2 and on AVX512BW it takes a 256-bit accumulator and writes 8.
C4_CallbackWindow ==
  (call.made /\ ncalls = 1 /\ impl.kind # "Dummy") =>
    LET n == IF tier = "SSE2" THEN 4 ELSE 8 IN
    /\ NBytes(call.input) = 4 * n
    /\ {i \in DOMAIN mem.output : mem.output[i] # Fill}
         = CallOffset..(CallOffset + n - 1)

C4_Witness ==
  /\ call.made
  /\ ncalls = 1
  /\ impl.kind # "Dummy"
  /\ tier = "AVX512BW"
  /\ Cardinality({i \in DOMAIN mem.output : mem.output[i] # Fill}) = 8

(***************************************************************************)
(* SpecWorkers: the driver's worker threads invoke one callback instance   *)
(* concurrently, each on its own tile.  operator() is straight-line code:  *)
(* unquantize into a register, add_bias (a load of the bias buffer), then  *)
(* the store, which the hardware may perform lane by lane.  Every worker   *)
(* records the cells it has read (rd) and written (wr).                    *)
(***************************************************************************)
NumWorkers == 2

Workers == 1..NumWorkers

\* the driver's partition: worker w gets a tile of its own, in the order of the tiles
TileOrder(info) == info.row_idx * info.cols + info.col_idx

Partitions(t) ==
  {p \in [Workers -> Positions(t)] :
     \A v, w \in Workers : v < w => TileOrder(p[v]) < TileOrder(p[w])}

WorkersInit ==
  /\ tier \in Tiers
  /\ config \in Configs
  /\ impl = CallbackImpl(tier, config)
  /\ MemInit
  /\ call = NoCall
  /\ ncalls = 0
  /\ \E p \in Partitions(tier) :
       workers = [w \in Workers |->
                    [pc |-> "call", info |-> p[w],
                     input |-> AccVec(CallbackRegBytes(tier), w - 1),
                     result |-> <<>>, lane |-> 0, rd |-> {}, wr |-> {}]]
  /\ KernelsIdle

\* Dummy: the body is empty
WorkerReturn(w) ==
  /\ workers[w].pc = "call"
  /\ impl.kind = "Dummy"
  /\ workers' = [workers EXCEPT ![w].pc = "done"]
  /\ UNCHANGED <<tier, config, impl, mem, call, ncalls, kernelVars>>

\* auto result = kernels::unquantize(input, unquant_mult);
WorkerUnquantize(w) ==
  /\ workers[w].pc = "call"
  /\ impl.kind # "Dummy"
  /\ workers' = [workers EXCEPT
       ![w].result = unquantize(workers[w].input, impl.unquant_mult),
       ![w].pc = IF impl.kind = "UnquantizeAndWrite" THEN "write" ELSE "add_bias"]
  /\ UNCHANGED <<tier, config, impl, mem, call, ncalls, kernelVars>>

\* result = kernels::add_bias(result, config.bias_addr, info.col_idx);
WorkerAddBias(w) ==
  /\ workers[w].pc = "add_bias"
  /\ workers' = [workers EXCEPT
       ![w].result = add_bias(@, mem[impl.config.bias_addr], workers[w].info.col_idx),
       ![w].rd = @ \cup {<<impl.config.bias_addr, workers[w].info.col_idx + k>> :
                           k \in DOMAIN workers[w].result},
       ![w].pc = "write"]
  /\ UNCHANGED <<tier, config, impl, mem, call, ncalls, kernelVars>>

\* kernels::write(result, addr, info.row_idx * info.cols + info.col_idx): one lane
WorkerStore(w) ==
  /\ workers[w].pc = "write"
  /\ LET addr == IF impl.kind = "UnquantizeAndWrite" THEN impl.config.addr
                 ELSE impl.config.output_addr
         k == workers[w].lane
         cell == OutputOffset(workers[w].info) + k
     IN  /\ mem' = [mem EXCEPT ![addr][cell] = workers[w].result[k]]
         /\ workers' = [workers EXCEPT
              ![w].wr = @ \cup {<<addr, cell>>},
              ![w].lane = k + 1,
              ![w].pc = IF k + 1 = Cardinality(DOMAIN workers[w].result)
                        THEN "done" ELSE "write"]
  /\ UNCHANGED <<tier, config, impl, call, ncalls, kernelVars>>

WorkersNext ==
  \E w \in Workers :
    WorkerReturn(w) \/ WorkerUnquantize(w) \/ WorkerAddBias(w) \/ WorkerStore(w)

SpecWorkers == WorkersInit /\ [][WorkersNext]_vars

(***************************************************************************)
(* Claims about concurrent invocation, checked under SpecWorkers           *)
(***************************************************************************)
RECURSIVE Orders(_)
Orders(S) ==
  IF S = {} THEN {<<>>}
  ELSE UNION {{<<w>> \o o : o \in Orders(S \ {w})} : w \in S}

\* the memory after the invocations run one after another in the given order
RECURSIVE RunInOrder(_, _)
RunInOrder(order, m) ==
  IF order = <<>> THEN m
  ELSE RunInOrder(Tail(order),
                  Callback(impl, m, workers[Head(order)].input, workers[Head(order)].info))

MemBefore == [mem EXCEPT !.output = [i \in DOMAIN mem.output |-> Fill]]

AllDone == \A w \in Workers : workers[w].pc = "done"

\* C5: workers invoking the same callback on tiles with disjoint windows end,
\* in every interleaving, with the memory that the invocations leave when run
\* one after another in any order, and no worker reads or writes a cell that
\* another worker writes.
C5_DisjointTilesCommute ==
  /\ \A v, w \in Workers :
       v # w => workers[v].wr \cap (workers[w].wr \cup workers[w].rd) = {}
  /\ AllDone => \A order \in Orders(Workers) : mem = RunInOrder(order, MemBefore)

C5_Witness ==
  /\ AllDone
  /\ impl.kind = "UnquantizeAndAddBiasAndWrite"
  /\ \A w \in Workers : workers[w].wr # {} /\ workers[w].rd # {}
  /\ workers[1].info.col_idx = workers[2].info.col_idx
  /\ workers[1].rd = workers[2].rd

(***************************************************************************)
(* The kernels as pure functions: each specification below draws the       *)
(* arguments of one kernel in its initial states and applies the kernel    *)
(* as compiled for the tier.  The callback's variables stay idle.          *)
(***************************************************************************)
CallbacksIdle ==
  /\ config = [kind |-> "Dummy"]
  /\ impl = NoImpl
  /\ mem = <<>>
  /\ call = NoCall
  /\ ncalls = 0
  /\ workers = <<>>

callbackVars == <<config, impl, mem, call, ncalls, workers>>

\* the kernel returns: its result is in kout
Return(name, result) ==
  /\ kpc = "ready"
  /\ kernel = name
  /\ kout' = result
  /\ kpc' = "done"
  /\ UNCHANGED <<tier, kernel, kin, callbackVars>>

Returned(name) == kpc = "done" /\ kernel = name

(***************************************************************************)
(* SpecRelu: relu<int8_t>, relu<int16_t>, relu<int>, relu<float>           *)
(***************************************************************************)
NumRelu == 8

\* int16 lanes: 0, 1, -1, minimum, maximum, ...
Samples16 == <<0, 1, 65535, 32768, 32767, 255, 256, 32769, 2, 65280>>

\* int32 lanes
Samples32 ==
  <<0, 1, -1, INT_MIN, 2147483647, 255, -256, 65536, -65537, 16777216>>

\* float lanes: 0.0, -0.0, 1.0, -1.0, 2.5, -0.5, 2^-30, -2^-30, 2^31, -2^31
SamplesFloat ==
  <<F(0, 0, 0), F(1, 0, 0), Flt(1, 0), Flt(-1, 0), Flt(5, -1), Flt(-1, -1),
    Flt(1, -30), Flt(-1, -30), Flt(1, 31), Flt(-1, 31)>>

\* a register of n bytes whose byte lanes hold every byte value in turn
Bytes8(n, seed) == [i \in 0..(n - 1) |-> (seed + 127 * i) % 256]

Rot16(n, seed) ==
  FromU16([k \in 0..(n \div 2 - 1) |-> Samples16[((seed + k) % NumRelu) + 1]])

Rot32(n, seed) ==
  FromS32([k \in 0..(n \div 4 - 1) |-> Samples32[((seed + k) % NumRelu) + 1]])

RotFloat(n, seed) ==
  [k \in 0..(n \div 4 - 1) |-> SamplesFloat[((seed + k) % NumRelu) + 1]]

RotDouble(n, seed) ==
  [k \in 0..(n \div 8 - 1) |-> SamplesFloat[((seed + k) % NumRelu) + 1]]

ReluInit ==
  /\ tier \in Tiers
  /\ CallbacksIdle
  /\ kpc = "ready"
  /\ kout = <<>>
  /\ \/ kernel = "relu<int8_t>" /\ \E seed \in 0..255 : kin = Bytes8(RegBytes(tier), seed)
     \/ kernel = "relu<int16_t>"
          /\ \E seed \in 0..(NumRelu - 1) : kin = Rot16(RegBytes(tier), seed)
     \/ kernel = "relu<int>"
          /\ \E seed \in 0..(NumRelu - 1) : kin = Rot32(RegBytes(tier), seed)
     \/ kernel = "relu<float>"
          /\ \E seed \in 0..(NumRelu - 1) : kin = RotFloat(RegBytes(tier), seed)
     \/ kernel = "relu<double>"
          /\ \E seed \in 0..(NumRelu - 1) : kin = RotDouble(RegBytes(tier), seed)

ReluInt8 == Return("relu<int8_t>", relu_int8(tier, kin))

ReluInt16 == Return("relu<int16_t>", relu_int16(tier, kin))

ReluInt == Return("relu<int>", relu_int(tier, kin))

ReluFloat == Return("relu<float>", relu_float(tier, kin))

ReluDouble == Return("relu<double>", relu_double(tier, kin))

ReluNext == ReluInt8 \/ ReluInt16 \/ ReluInt \/ ReluFloat \/ ReluDouble

SpecRelu == ReluInit /\ [][ReluNext]_vars

S16(r, k) == IF U16(r, k) >= 32768 THEN U16(r, k) - 65536 ELSE U16(r, k)

IntMax(x, y) == IF x >= y THEN x ELSE y

\* C7: relu(x) is max(x, 0) in every lane, for int8, int16, int32, float and
\* double on every tier, and the SSE2 emulation for int8 and int32 (input AND the mask of
\* 0 < input) returns the register the native signed max returns.
C7_ReluIsMax ==
  /\ Returned("relu<int8_t>") =>
       /\ \A i \in DOMAIN kin : S8(kout[i]) = IntMax(S8(kin[i]), 0)
       /\ kout = max_epi8(kin, set1_epi8(NBytes(kin), 0))
  /\ Returned("relu<int16_t>") =>
       \A k \in Lanes16(kin) : S16(kout, k) = IntMax(S16(kin, k), 0)
  /\ Returned("relu<int>") =>
       /\ \A k \in Lanes32(kin) : S32(kout, k) = IntMax(S32(kin, k), 0)
       /\ kout = max_epi32(kin, set1_epi32(NBytes(kin), 0))
  /\ Returned("relu<float>") \/ Returned("relu<double>") =>
       \A k \in DOMAIN kin :
         IF kin[k].s = 0 /\ kin[k].m # 0 THEN kout[k] = kin[k] ELSE kout[k] = F(0, 0, 0)

\* the SSE2 emulation on lanes holding the minimum, -1 and a positive value
C7_Witness ==
  /\ Returned("relu<int8_t>")
  /\ tier = "SSE2"
  /\ \E i, j, k \in DOMAIN kin :
       /\ kin[i] = 128 /\ kout[i] = 0
       /\ kin[j] = 255 /\ kout[j] = 0
       /\ kin[k] = 1 /\ kout[k] = 1

(***************************************************************************)
(* SpecMultiply8: multiply<int8_t>.  Over the initial states every pair of *)
(* byte values meets in an even byte lane and in an odd byte lane.         *)
(***************************************************************************)
BytePairs(n, blk, p, d) ==
  LET a == [j \in 0..(n - 1) |-> (blk * n + j + p) % 256]
  IN  [a |-> a, b |-> [j \in 0..(n - 1) |-> (a[j] + d + 37 * (j \div 2)) % 256]]

Multiply8Init ==
  /\ tier \in Tiers
  /\ CallbacksIdle
  /\ kpc = "ready"
  /\ kout = <<>>
  /\ kernel = "multiply<int8_t>"
  /\ \E blk \in 0..(256 \div RegBytes(tier) - 1), p \in {0, 1}, d \in 0..255 :
       kin = BytePairs(RegBytes(tier), blk, p, d)

MultiplyInt8 == Return("multiply<int8_t>", multiply_int8(kin.a, kin.b))

SpecMultiply8 == Multiply8Init /\ [][MultiplyInt8]_vars

\* C8: every byte lane of multiply<int8_t>(a, b), even or odd, holds
\* (a_lane * b_lane) mod 256: the product wraps, does not saturate, and takes
\* nothing from the other byte of its 16-bit lane.
C8_Multiply8Wraps ==
  Returned("multiply<int8_t>") =>
    \A j \in DOMAIN kout :
      /\ kout[j] = (S8(kin.a[j]) * S8(kin.b[j])) % 256
      /\ kout[j] = (kin.a[j] * kin.b[j]) % 256

\* 127 * 127 = 16129 wraps to 1 in an odd lane beside a nonzero even lane
C8_Witness ==
  /\ Returned("multiply<int8_t>")
  /\ \E j \in DOMAIN kout :
       /\ j % 2 = 1
       /\ kin.a[j] = 127 /\ kin.b[j] = 127 /\ kout[j] = 1
       /\ kin.a[j - 1] * kin.b[j - 1] >= 256

(***************************************************************************)
(* SpecMultiply32: multiply<int>                                           *)
(***************************************************************************)
NumMul32 == 8

MulSamples ==
  <<-1, INT_MIN, 305419896, 65537, 2147483647, 3, -2023406815, 46341, 0, -65536>>

MulArgs(n, sa, sb) ==
  [a |-> FromS32([k \in 0..(n \div 4 - 1) |-> MulSamples[((sa + k) % NumMul32) + 1]]),
   b |-> FromS32([k \in 0..(n \div 4 - 1) |-> MulSamples[((sb + 3 * k) % NumMul32) + 1]])]

Multiply32Init ==
  /\ tier \in Tiers
  /\ CallbacksIdle
  /\ kpc = "ready"
  /\ kout = <<>>
  /\ kernel = "multiply<int>"
  /\ \E sa, sb \in 0..(NumMul32 - 1) : kin = MulArgs(RegBytes(tier), sa, sb)

MultiplyInt == Return("multiply<int>", multiply_int(tier, kin.a, kin.b))

SpecMultiply32 == Multiply32Init /\ [][MultiplyInt]_vars

\* the scalar reference: a 32-bit word as two 16-bit halves, the product by
\* shifting and adding modulo 2^32
Halves(v) == [hi |-> (v \div 65536) % 65536, lo |-> v % 65536]

AddHalves(p, q) ==
  [hi |-> (p.hi + q.hi + (p.lo + q.lo) \div 65536) % 65536, lo |-> (p.lo + q.lo) % 65536]

\* p * 2^i modulo 2^32
ShiftLeft(p, i) ==
  IF i < 16
  THEN [hi |-> (p.hi * 2^i + (p.lo * 2^i) \div 65536) % 65536, lo |-> (p.lo * 2^i) % 65536]
  ELSE [hi |-> (p.lo * 2^(i - 16)) % 65536, lo |-> 0]

BitOfWord(p, i) == IF i < 16 THEN (p.lo \div 2^i) % 2 ELSE (p.hi \div 2^(i - 16)) % 2

RECURSIVE ShiftAndAdd(_, _, _)
ShiftAndAdd(a, b, i) ==
  IF i = 32 THEN Halves(0)
  ELSE AddHalves(IF BitOfWord(b, i) = 1 THEN ShiftLeft(a, i) ELSE Halves(0),
                 ShiftAndAdd(a, b, i + 1))

Signed32(p) == (IF p.hi >= 32768 THEN p.hi - 65536 ELSE p.hi) * 65536 + p.lo

MulLow32(x, y) == Signed32(ShiftAndAdd(Halves(x), Halves(y), 0))

\* C9: on SSE2 lane k of multiply<int>(a, b), k = 0..3, holds the low 32 bits
\* of a[k] * b[k] in the original lane order, which is the register the native
\* 32-bit low multiply of the wider tiers returns for the same arguments.
C9_Multiply32Emulated ==
  Returned("multiply<int>") =>
    /\ \A k \in Lanes32(kout) : S32(kout, k) = MulLow32(S32(kin.a, k), S32(kin.b, k))
    /\ tier = "SSE2" =>
         /\ Lanes32(kout) = 0..3
         /\ kout = mullo_epi32(kin.a, kin.b)

\* four different products on SSE2, one of a negative value overflowing 32 bits
C9_Witness ==
  /\ Returned("multiply<int>")
  /\ tier = "SSE2"
  /\ \A j, k \in 0..3 : j # k => S32(kout, j) # S32(kout, k)
  /\ \E k \in 0..3 :
       /\ S32(kin.a, k) < -65536
       /\ S32(kin.b, k) > 65536
       /\ S32(kout, k) # 0

(***************************************************************************)
(* SpecQuantize: quantize, then unquantize of its result                   *)
(***************************************************************************)
NumPairs == 8

NumInputs == 8

\* the multipliers (quant_mult, unquant_mult): 10 and 0.1f, 1/3 and 3,
\* 2 and 0.5, 0.5 and 2, 1 and 1, 2 and 2, 4 and 0.25, 0.5 and 0.5, ...
MultSamples ==
  <<<<Flt(10, 0), F(0, 13421773, -27)>>, <<F(0, 11184811, -25), Flt(3, 0)>>,
    <<Flt(2, 0), Flt(1, -1)>>, <<Flt(1, -1), Flt(2, 0)>>,
    <<Flt(1, 0), Flt(1, 0)>>, <<Flt(2, 0), Flt(2, 0)>>,
    <<Flt(4, 0), Flt(1, -2)>>, <<Flt(1, -1), Flt(1, -1)>>,
    <<Flt(3, 0), Flt(3, 0)>>, <<Flt(1, -3), Flt(8, 0)>>>>

\* the inputs: 1.0, 3.5, 0.05f, -2.3125, 976.5634..., 2^29, -2.5, 0.1f,
\* -100000.25, 0.375; none is above 2^29 in magnitude
InputSamples ==
  <<Flt(1, 0), Flt(7, -1), F(0, 13421773, -28), Flt(-37, -4), Flt(1000001, -10),
    Flt(1, 29), Flt(-5, -1), F(0, 13421773, -27), Flt(-400001, -2), Flt(3, -3)>>

RotInputs(n, seed) ==
  [k \in 0..(n \div 4 - 1) |-> InputSamples[((seed + k) % NumInputs) + 1]]

QuantizeInit ==
  /\ tier \in Tiers
  /\ CallbacksIdle
  /\ kpc = "ready"
  /\ kout = <<>>
  /\ kernel = "quantize"
  /\ \E seed \in 0..(NumInputs - 1), p \in 1..NumPairs :
       kin = [f |-> RotInputs(RegBytes(tier), seed),
              quant_mult |-> MultSamples[p][1],
              unquant_mult |-> MultSamples[p][2]]

Quantize ==
  /\ kpc = "ready"
  /\ kernel = "quantize"
  /\ kout' = [q |-> quantize(kin.f, set1_ps(RegBytes(tier), kin.quant_mult))]
  /\ kpc' = "quantized"
  /\ UNCHANGED <<tier, kernel, kin, callbackVars>>

Unquantize ==
  /\ kpc = "quantized"
  /\ kernel = "quantize"
  /\ kout' = [q |-> kout.q,
              r |-> unquantize(kout.q, set1_ps(RegBytes(tier), kin.unquant_mult))]
  /\ kpc' = "done"
  /\ UNCHANGED <<tier, kernel, kin, callbackVars>>

QuantizeNext == Quantize \/ Unquantize

SpecQuantize == QuantizeInit /\ [][QuantizeNext]_vars

\* exact values for the comparison: w + f / 2^28 with w an integer and
\* 0 <= f < 2^28, for floats that are multiples of 2^-28 below 2^30
FixOne == 2^28

FixNeg(p) ==
  IF p.f = 0 THEN [w |-> -p.w, f |-> 0] ELSE [w |-> -p.w - 1, f |-> FixOne - p.f]

ToFix(x) ==
  LET mag == IF x.m = 0 THEN [w |-> 0, f |-> 0]
             ELSE IF x.e >= 0 THEN [w |-> x.m * 2^x.e, f |-> 0]
             ELSE [w |-> x.m \div 2^(-x.e), f |-> (x.m % 2^(-x.e)) * 2^(28 + x.e)]
  IN  IF x.s = 1 THEN FixNeg(mag) ELSE mag

FixAdd(p, q) == [w |-> p.w + q.w + (p.f + q.f) \div FixOne, f |-> (p.f + q.f) % FixOne]

FixLe(p, q) == p.w < q.w \/ (p.w = q.w /\ p.f <= q.f)

FixAbs(p) == IF p.w < 0 THEN FixNeg(p) ELSE p

\* p / 2^21 rounded down, for p >= 0
FixShr21(p) == [w |-> p.w \div 2^21, f |-> (p.w % 2^21) * 128 + p.f \div 2^21]

\* the rounding error allowed: (|f| + s) / 2^21, and one unit of 2^-28
RoundingError(f, s) ==
  FixAdd(FixShr21(FixAdd(FixAbs(ToFix(f)), ToFix(s))), [w |-> 0, f |-> 1])

\* |r - f| <= s / 2 + rounding error.  The inputs are at most 2^29 in
\* magnitude and s at most 8, so a result of 2^30 or more is not within.
WithinHalfStep(r, f, s) ==
  IF r.m # 0 /\ r.e >= 7 THEN FALSE
  ELSE LET bound == FixAdd(ToFix(F(0, s.m, s.e - 1)), RoundingError(f, s))
       IN  /\ FixLe(ToFix(r), FixAdd(ToFix(f), bound))
           /\ FixLe(ToFix(f), FixAdd(ToFix(r), bound))

RoundTripDone == kpc = "done" /\ kernel = "quantize"

\* f * quant_mult is inside the int32 range
InInt32Range(f, quant_mult) == LET p == FMul(f, quant_mult) IN p.m = 0 \/ p.e < 8

\* C6 as stated: when the same multiplier s is passed to quantize and to
\* unquantize, |unquantize(quantize(f, s), s) - f| <= s / 2 plus rounding
\* error, for every float f and positive s.
C6_SameScaleRoundTrip ==
  RoundTripDone /\ kin.quant_mult = kin.unquant_mult =>
    \A k \in DOMAIN kin.f : WithinHalfStep(kout.r[k], kin.f[k], kin.unquant_mult)

\* C6 as the code has it: when quantize is given the reciprocal 1 / s (the float
\* product of the two multipliers is 1) and unquantize is given s, and
\* f * (1 / s) is inside the int32 range, |unquantize(quantize(f, 1 / s), s) - f|
\* <= s / 2 plus rounding error.
C6_ReciprocalRoundTrip ==
  RoundTripDone /\ FMul(kin.quant_mult, kin.unquant_mult) = Flt(1, 0) =>
    \A k \in DOMAIN kin.f :
      InInt32Range(kin.f[k], kin.quant_mult) =>
        WithinHalfStep(kout.r[k], kin.f[k], kin.unquant_mult)

\* with multipliers 10 and 0.1f: the tie 0.05f * 10 = 0.5 rounds to 0, so the
\* result is off by exactly half a step, and 976.56... becomes 9766
C6_Witness ==
  /\ RoundTripDone
  /\ kin.quant_mult = Flt(10, 0)
  /\ kin.unquant_mult = F(0, 13421773, -27)
  /\ \E k \in DOMAIN kin.f :
       /\ kin.f[k] = F(0, 13421773, -28)
       /\ S32(kout.q, k) = 0
       /\ kout.r[k] = F(0, 0, 0)
  /\ \E k \in DOMAIN kin.f : kin.f[k] = Flt(1000001, -10) /\ S32(kout.q, k) = 9766

(***************************************************************************)
(* SpecFloor: floor                                                        *)
(***************************************************************************)
NumFloor == 17

\* -0.5, -1.0, 2.9999998, -0.0, 0.0, 1.5, -2.5, 8388607.5, -8388607.5, 2^31,
\* -3 * 2^30, 2147483520, -2^31, 2^-30, -2^-30, 2^24, -5.0, 1.75
FloorSamples ==
  <<Flt(-1, -1), Flt(-1, 0), F(0, 12582911, -22), F(1, 0, 0), F(0, 0, 0),
    Flt(3, -1), Flt(-5, -1), F(0, 16777215, -1), F(1, 16777215, -1), Flt(1, 31),
    Flt(-3, 30), F(0, 16777215, 7), Flt(-1, 31), Flt(1, -30), Flt(-1, -30),
    Flt(1, 24), Flt(-5, 0), Flt(7, -2)>>

RotFloor(n, seed, stride) ==
  [k \in 0..(n \div 4 - 1) |-> FloorSamples[((seed + stride * k) % NumFloor) + 1]]

FloorInit ==
  /\ tier \in Tiers
  /\ CallbacksIdle
  /\ kpc = "ready"
  /\ kout = <<>>
  /\ kernel = "floor"
  /\ \E seed \in 0..(NumFloor - 1), stride \in {1, 5} :
       kin = RotFloor(RegBytes(tier), seed, stride)

Floor == Return("floor", floor(tier, kin))

SpecFloor == FloorInit /\ [][Floor]_vars

IsIntegral(x) == x.m = 0 \/ x.e >= 0 \/ (x.e > -24 /\ x.m % 2^(-x.e) = 0)

\* r is the greatest integer not above x
IsFloorOf(r, x) ==
  /\ IsIntegral(r)
  /\ FLe(r, x)
  /\ IF r.m # 0 /\ r.e > 0 THEN FEq(r, x) ELSE FLt(x, FAdd(r, Flt(1, 0)))

\* C10 as stated: floor(x) is the mathematical floor of x in every lane on
\* every tier, for every float input including those outside the int32
\* range, and the emulated path gives the value the native floor gives.
C10_FloorIsMathematicalFloor ==
  Returned("floor") =>
    \A k \in DOMAIN kin :
      /\ IsFloorOf(kout[k], kin[k])
      /\ FEq(kout[k], FloorLane(kin[k]))

(***************************************************************************)
(* SpecExp: exp_approx_taylor, sigmoid and tanh.  NDEBUG says whether the  *)
(* build compiles assert out; bits is the precision of the reciprocal      *)
(* instruction of the machine.                                             *)
(***************************************************************************)
NumOther == 14

\* 0.5, -0.5, 19.999998, -19.999998, 20.5, -20.5, 1000, -1000, 2^31, -2^31,
\* -2^-30, 2^-30, -0.0, 3.75, 0.1f
OtherInputs ==
  <<Flt(1, -1), Flt(-1, -1), F(0, 10485759, -19), F(1, 10485759, -19), Flt(41, -1),
    Flt(-41, -1), Flt(1000, 0), Flt(-1000, 0), Flt(1, 31), Flt(-1, 31),
    Flt(-1, -30), Flt(1, -30), F(1, 0, 0), Flt(15, -2), F(0, 13421773, -27)>>

NumExpInputs == (EXP_MAX - EXP_MIN + 1) + NumOther

\* every integer of -20..20, then the other inputs
ExpInput(i) ==
  IF i <= EXP_MAX - EXP_MIN THEN Flt(i + EXP_MIN, 0) ELSE OtherInputs[i - (EXP_MAX - EXP_MIN)]

RotExp(n, seed) == [k \in 0..(n \div 4 - 1) |-> ExpInput((seed + k) % NumExpInputs)]

\* what a read outside the table, or a return without a value, leaves
Garbage == {Flt(1, 0), Flt(-3, 100)}

\* relative error 1.5 * 2^-12 (rcp), 2^-14 (rcp14), or the exact quotient
RcpBits(t) == IF t = "AVX2" THEN {13, 24} ELSE {15, 24}

ExpInit ==
  /\ tier \in Tiers
  /\ CallbacksIdle
  /\ kpc = "ready"
  /\ kout = <<>>
  /\ kernel \in {"exp_approx_taylor", "sigmoid", "tanh"}
  /\ \E seed \in 0..(NumExpInputs - 1), ndebug \in BOOLEAN, bits \in RcpBits(tier) :
       /\ kernel # "sigmoid" => bits = 24
       /\ kin = [x |-> RotExp(RegBytes(tier), seed), NDEBUG |-> ndebug, bits |-> bits]

\* assert(false && "SSE2 is not supported") in a checked build
AssertFails ==
  /\ kpc = "ready"
  /\ kernel \in {"exp_approx_taylor", "sigmoid", "tanh"}
  /\ NotSupported(tier)
  /\ ~kin.NDEBUG
  /\ kpc' = "aborted"
  /\ UNCHANGED <<tier, kernel, kin, kout, callbackVars>>

\* with assert compiled out the function ends without a return statement:
\* undefined, the caller gets some register or the program stops
NoReturnValue ==
  /\ kpc = "ready"
  /\ kernel \in {"exp_approx_taylor", "sigmoid", "tanh"}
  /\ NotSupported(tier)
  /\ kin.NDEBUG
  /\ \/ kpc' = "aborted" /\ kout' = kout
     \/ \E g \in Garbage :
          /\ kpc' = "done"
          /\ kout' = [return |-> set1_ps(RegBytes(tier), g)]
  /\ UNCHANGED <<tier, kernel, kin, callbackVars>>

ExpApproxTaylor ==
  /\ ~NotSupported(tier)
  /\ \E outside \in Garbage :
       Return("exp_approx_taylor", exp_approx_taylor(tier, kin.x, outside))

Sigmoid ==
  /\ ~NotSupported(tier)
  /\ \E outside \in Garbage : Return("sigmoid", sigmoid(tier, kin.x, kin.bits, outside))

Tanh ==
  /\ ~NotSupported(tier)
  /\ \E outside \in Garbage : Return("tanh", [return |-> tanh(tier, kin.x, outside)])

ExpNext == AssertFails \/ NoReturnValue \/ ExpApproxTaylor \/ Sigmoid \/ Tanh

SpecExp == ExpInit /\ [][ExpNext]_vars

\* the lane holds an integer of -20..20
IsTableInteger(x) ==
  IsIntegral(x) /\ FLe(Flt(EXP_MIN, 0), x) /\ FLe(x, Flt(EXP_MAX, 0))

\* C11: for every integer n in -20..20, exp_approx_taylor(n) is the tabulated
\* value for n exactly: the remainder is 0, the polynomial evaluates to
\* exactly 1, and the gather reads entry n + 20 of the 41-entry table.
C11_ExactAtIntegers ==
  Returned("exp_approx_taylor") /\ ~NotSupported(tier) =>
    \A k \in DOMAIN kin.x :
      IsTableInteger(kin.x[k]) =>
        LET n == FloatToIntNearest(kin.x[k]) IN
        /\ kout.xa[k].m = 0
        /\ kout.result[k] = Flt(1, 0)
        /\ S32(kout.vindex, k) = n
        /\ kout.ea[k] = EXP_LOOKUP[n + 20]
        /\ kout.return[k] = expi(n)

\* lanes holding 20 and -20 on AVX512BW return the last and the first entry
C11_Witness ==
  /\ Returned("exp_approx_taylor")
  /\ tier = "AVX512BW"
  /\ \E j, k \in DOMAIN kin.x :
       /\ kin.x[j] = Flt(20, 0) /\ kout.return[j] = F(0, 15161412, 5)
       /\ kin.x[k] = Flt(-20, 0) /\ kout.return[k] = F(0, 9282611, -52)

Supported(name) == Returned(name) /\ ~NotSupported(tier)

\* the locals of one lane after the clamp: the integer part a lies in -20..20,
\* the gather index a + 20 in 0..40, the entry read is the table's
InsideTable(k) ==
  /\ FLe(Flt(EXP_MIN, 0), kout.x[k]) /\ FLe(kout.x[k], Flt(EXP_MAX, 0))
  /\ IsTableInteger(kout.a[k])
  /\ S32(kout.vindex, k) = FloatToIntNearest(kout.a[k])
  /\ S32(kout.vindex, k) + 20 \in 0..40
  /\ kout.ea[k] = EXP_LOOKUP[S32(kout.vindex, k) + 20]

\* an input above 20 gives what 20 gives, an input below -20 what -20 gives
Saturates(k) ==
  /\ FLt(Flt(EXP_MAX, 0), kin.x[k]) => kout.return[k] = expi(EXP_MAX)
  /\ FLt(kin.x[k], Flt(EXP_MIN, 0)) => kout.return[k] = expi(EXP_MIN)

\* C12 as stated: on AVX2 and AVX512BW every input is clamped to [-20, 20],
\* so an input above 20 gives the result for 20 and one below -20 the result
\* for -20; after the clamp a = floor(x) lies in -20..20, the gather index
\* a + 20 lies in 0..40, and the remainder r = x - a satisfies 0 <= r < 1.
C12_RemainderBelowOne ==
  Supported("exp_approx_taylor") =>
    \A k \in DOMAIN kin.x :
      /\ Saturates(k)
      /\ InsideTable(k)
      /\ FLe(F(0, 0, 0), kout.xa[k]) /\ FLt(kout.xa[k], Flt(1, 0))

\* C12 as the code has it: the same, with the remainder as the float
\* subtraction leaves it, 0 <= r <= 1 (x - a rounds up to 1.0 for a negative
\* x close to an integer from below, such as -2^-30).
C12_ClampedInsideTable ==
  Supported("exp_approx_taylor") =>
    \A k \in DOMAIN kin.x :
      /\ Saturates(k)
      /\ InsideTable(k)
      /\ FLe(F(0, 0, 0), kout.xa[k]) /\ FLe(kout.xa[k], Flt(1, 0))

\* lanes holding 1000, -1000 and -2^-30: clamped to 20 and -20, remainder 1.0
C12_Witness ==
  /\ Supported("exp_approx_taylor")
  /\ \E i, j, k \in DOMAIN kin.x :
       /\ kin.x[i] = Flt(1000, 0) /\ S32(kout.vindex, i) = 20
       /\ kin.x[j] = Flt(-1000, 0) /\ S32(kout.vindex, j) = -20
       /\ kin.x[k] = Flt(-1, -30) /\ S32(kout.vindex, k) = -1 /\ kout.xa[k] = Flt(1, 0)

Activation == kernel \in {"exp_approx_taylor", "sigmoid", "tanh"}

\* C13: on SSE2 a call of exp_approx_taylor, sigmoid or tanh in a checked
\* build ends in the assertion failure: no value is returned and no local is
\* computed; on AVX2 and AVX512BW the calls never fail the assertion.
C13_AssertOnSSE2Only ==
  Activation /\ kpc # "ready" =>
    /\ tier = "SSE2" /\ ~kin.NDEBUG => kpc = "aborted" /\ kout = <<>>
    /\ tier # "SSE2" => kpc = "done" /\ "return" \in DOMAIN kout

C13_Witness ==
  /\ kernel = "tanh"
  /\ tier = "SSE2"
  /\ ~kin.NDEBUG
  /\ kpc = "aborted"
  /\ kout = <<>>

WrittenFromCache ==
  (call.made /\ impl.kind # "Dummy") =>
    /\ impl.unquant_mult = set1_ps(CallbackRegBytes(tier), impl.config.unquant_mult)
    /\ \A i \in CallLanes :
         LET product == FMul(IntToFloat(S32(call.input, i)), impl.unquant_mult[i])
         IN  mem.output[CallOffset + i]
               = IF impl.kind = "UnquantizeAndWrite" THEN product
                 ELSE FAdd(product, mem.bias[call.info.col_idx + i])

\* C15: an instance takes its configuration and its broadcast scale once, at
\* construction: no later step (an invocation on any tile, or a change the
\* caller makes to the configuration value it was constructed from) changes
\* them, and what a call writes is given by the accumulator, the position, the
\* bias buffer and those cached values.
C15_ConfigurationFixedAtConstruction ==
  /\ [][impl # NoImpl => impl' = impl]_vars
  /\ []WrittenFromCache

\* a second call made after the caller changed the scale of its own value
C15_Witness ==
  /\ ncalls = 2
  /\ call.made
  /\ impl.kind = "UnquantizeAndAddBiasAndWrite"
  /\ config.unquant_mult # impl.config.unquant_mult
  /\ impl.unquant_mult[0] = impl.config.unquant_mult
  /\ mem.output[CallOffset] # Fill

====
